---- MODULE Spec2Model ----
(***************************************************************************)
(* Model of the hierarchical selection tree of gpx.studio                  *)
(* (components/file-list/Selection.ts) and of the selection operations     *)
(* that act on the process-wide selection store.                           *)
(***************************************************************************)
EXTENDS Integers, Sequences, FiniteSets, TLC

VARIABLES selection, fileObservers, lastOp, steps,
          storesLoaded, fileOrder, gpxStatistics, unsubscribes, subscribers,
          notified, recomputes

vars == <<selection, fileObservers, lastOp, steps,
          storesLoaded, fileOrder, gpxStatistics, unsubscribes, subscribers,
          notified, recomputes>>

(***************************************************************************)
(* Bound of the model: the number of operations in a run.                  *)
(***************************************************************************)
MaxSteps == 3

(***************************************************************************)
(* JavaScript values: string | number | undefined, and boolean | undefined *)
(***************************************************************************)
Undefined == [undefined |-> TRUE]
Str(s) == [str |-> s]
Num(n) == [num |-> n]
Bool(b) == [bool |-> b]
IsNum(id) == "num" \in DOMAIN id

\* Conversion of a property key to the string under which an object stores it.
PropertyKey(id) == IF IsNum(id) THEN ToString(id.num) ELSE id.str

(***************************************************************************)
(* FileList.ts: levels and addresses.                                      *)
(***************************************************************************)
ROOT == 0
FILE == 1
TRACK == 2
SEGMENT == 3
WAYPOINTS == 4
WAYPOINT == 5

ListRootItem == [level |-> ROOT]
ListFileItem(fileId) == [level |-> FILE, fileId |-> fileId]
ListTrackItem(fileId, trackIndex) ==
    [level |-> TRACK, fileId |-> fileId, trackIndex |-> trackIndex]
ListTrackSegmentItem(fileId, trackIndex, segmentIndex) ==
    [level |-> SEGMENT, fileId |-> fileId, trackIndex |-> trackIndex,
     segmentIndex |-> segmentIndex]
ListWaypointsItem(fileId) == [level |-> WAYPOINTS, fileId |-> fileId]
ListWaypointItem(fileId, waypointIndex) ==
    [level |-> WAYPOINT, fileId |-> fileId, waypointIndex |-> waypointIndex]

getFileId(item) == IF item.level = ROOT THEN "" ELSE item.fileId

getIdAtLevel(item, level) ==
    CASE item.level = ROOT -> Undefined
      [] item.level = FILE ->
            IF level = ROOT THEN Str(item.fileId) ELSE Undefined
      [] item.level = TRACK ->
            IF level = ROOT THEN Str(item.fileId)
            ELSE IF level = FILE THEN Num(item.trackIndex)
            ELSE Undefined
      [] item.level = SEGMENT ->
            IF level = ROOT THEN Str(item.fileId)
            ELSE IF level = FILE THEN Num(item.trackIndex)
            ELSE IF level = TRACK THEN Num(item.segmentIndex)
            ELSE Undefined
      [] item.level = WAYPOINTS ->
            IF level = ROOT THEN Str(item.fileId)
            ELSE IF level = FILE THEN Str("waypoints")
            ELSE Undefined
      [] item.level = WAYPOINT ->
            IF level = ROOT THEN Str(item.fileId)
            ELSE IF level = FILE THEN Str("waypoints")
            ELSE IF level = WAYPOINTS THEN Num(item.waypointIndex)
            ELSE Undefined

extend(item, id) ==
    CASE item.level = ROOT -> ListFileItem(id.str)
      [] item.level = FILE ->
            IF id = Str("waypoints") THEN ListWaypointsItem(item.fileId)
            ELSE ListTrackItem(item.fileId, id.num)
      [] item.level = TRACK ->
            ListTrackSegmentItem(item.fileId, item.trackIndex, id.num)
      [] item.level = WAYPOINTS -> ListWaypointItem(item.fileId, id.num)
      [] OTHER -> item

getParent(item) ==
    CASE item.level = ROOT -> item
      [] item.level = FILE -> ListRootItem
      [] item.level = TRACK -> ListFileItem(item.fileId)
      [] item.level = SEGMENT -> ListTrackItem(item.fileId, item.trackIndex)
      [] item.level = WAYPOINTS -> ListFileItem(item.fileId)
      [] item.level = WAYPOINT -> ListWaypointsItem(item.fileId)

(***************************************************************************)
(* The documents of the file store (db.ts), reduced to their shape: the    *)
(* number of segments of each track and the number of waypoints.           *)
(***************************************************************************)
FileIds == {"f1", "f2"}

GPXFileOf(fileId) ==
    IF fileId = "f1"
    THEN [trk |-> <<[trkseg |-> 1], [trkseg |-> 0]>>, wpt |-> 1]
    ELSE [trk |-> <<[trkseg |-> 0]>>, wpt |-> 0]

\* The addresses of a file's document.
ItemsOfFile(fileId) ==
    LET file == GPXFileOf(fileId)
    IN {ListFileItem(fileId), ListWaypointsItem(fileId)}
         \cup {ListTrackItem(fileId, t - 1) : t \in DOMAIN file.trk}
         \cup UNION {{ListTrackSegmentItem(fileId, t - 1, s - 1) :
                        s \in 1 .. file.trk[t].trkseg} : t \in DOMAIN file.trk}
         \cup {ListWaypointItem(fileId, w - 1) : w \in 1 .. file.wpt}

\* An address left over from an edited document: a segment of a track that
\* the document of f2 does not have.
StaleItems == {ListTrackSegmentItem("f2", 1, 0)}

\* The well-formed addresses the operations are called with.
Items == {ListRootItem} \cup UNION {ItemsOfFile(fileId) : fileId \in FileIds} \cup StaleItems

\* The addresses on the path from the root down to item, item included.
RECURSIVE PathItems(_)
PathItems(item) ==
    IF item.level = ROOT THEN {item} ELSE {item} \cup PathItems(getParent(item))

\* The addresses a node of the tree can have.
Addresses == UNION {PathItems(item) : item \in Items}

(***************************************************************************)
(* SelectionTreeType.  A node is a record; `children` is the mapping from  *)
(* property key to child node and `keys` the order in which the keys were  *)
(* inserted into it (JavaScript objects remember it).                      *)
(***************************************************************************)
NoChildren == [key \in {} |-> TRUE]

SelectionTreeType(item) ==
    [item |-> item, selected |-> FALSE, children |-> NoChildren,
     keys |-> <<>>, size |-> 0]

hasOwnProperty(children, id) == PropertyKey(id) \in DOMAIN children

\* for (let key in this.children): integer-like keys in ascending numeric
\* order, then the other keys in insertion order.
IndexKeys == [i \in 1 .. 3 |-> ToString(i - 1)]
IsIndexKey(key) == \E i \in DOMAIN IndexKeys : key = IndexKeys[i]
ForInKeys(this) ==
    SelectSeq(IndexKeys, LAMBDA key : key \in DOMAIN this.children)
        \o SelectSeq(this.keys, LAMBDA key : ~IsIndexKey(key))

\* clear() that resets this node only and leaves its children as they are.
clearThisNodeOnly(this) == [this EXCEPT !.selected = FALSE, !.size = 0]

\* clear() that discards the child structure instead of keeping the nodes.
clearDiscardingChildren(this) ==
    [this EXCEPT !.selected = FALSE, !.children = NoChildren, !.keys = <<>>, !.size = 0]

RECURSIVE clear(_)
clear(this) ==
    [this EXCEPT
        !.selected = FALSE,
        !.children = [key \in DOMAIN this.children |-> clear(this.children[key])],
        !.size = 0]

\* _setOrToggle without the test that the flag changes: size is adjusted on
\* every call.
RECURSIVE setOrToggleAlwaysCounting(_, _, _)
setOrToggleAlwaysCounting(this, item, value) ==
    IF item.level = this.item.level
    THEN LET newSelected == IF value = Undefined THEN ~this.selected ELSE value.bool
         IN [this EXCEPT !.selected = newSelected,
                         !.size = IF newSelected THEN @ + 1 ELSE @ - 1]
    ELSE LET id == getIdAtLevel(item, this.item.level)
         IN IF id # Undefined
            THEN LET key == PropertyKey(id)
                     created ==
                        IF hasOwnProperty(this.children, id) THEN this
                        ELSE [this EXCEPT
                                !.children = @ @@ (key :> SelectionTreeType(extend(this.item, id))),
                                !.keys = Append(@, key)]
                     child == setOrToggleAlwaysCounting(created.children[key], item, value)
                 IN [created EXCEPT
                        !.size = (@ - created.children[key].size) + child.size,
                        !.children[key] = child]
            ELSE this

\* _setOrToggle that also gives every node on the way down the flag of the
\* target.
RECURSIVE setOrToggleCascading(_, _, _)
setOrToggleCascading(this, item, value) ==
    IF item.level = this.item.level
    THEN LET newSelected == IF value = Undefined THEN ~this.selected ELSE value.bool
         IN IF this.selected # newSelected
            THEN [this EXCEPT !.selected = newSelected,
                              !.size = IF newSelected THEN @ + 1 ELSE @ - 1]
            ELSE this
    ELSE LET id == getIdAtLevel(item, this.item.level)
         IN IF id # Undefined
            THEN LET key == PropertyKey(id)
                     created ==
                        IF hasOwnProperty(this.children, id) THEN this
                        ELSE [this EXCEPT
                                !.children = @ @@ (key :> SelectionTreeType(extend(this.item, id))),
                                !.keys = Append(@, key)]
                     child == setOrToggleCascading(created.children[key], item, value)
                 IN [created EXCEPT
                        !.selected = child.selected,
                        !.size = (@ - created.children[key].size) + child.size,
                        !.children[key] = child]
            ELSE this

RECURSIVE setOrToggle(_, _, _)
setOrToggle(this, item, value) ==
    IF item.level = this.item.level
    THEN LET newSelected == IF value = Undefined THEN ~this.selected ELSE value.bool
         IN IF this.selected # newSelected
            THEN [this EXCEPT !.selected = newSelected,
                              !.size = IF newSelected THEN @ + 1 ELSE @ - 1]
            ELSE this
    ELSE LET id == getIdAtLevel(item, this.item.level)
         IN IF id # Undefined
            THEN LET key == PropertyKey(id)
                     created ==
                        IF hasOwnProperty(this.children, id) THEN this
                        ELSE [this EXCEPT
                                !.children = @ @@ (key :> SelectionTreeType(extend(this.item, id))),
                                !.keys = Append(@, key)]
                     child == setOrToggle(created.children[key], item, value)
                 IN [created EXCEPT
                        !.size = (@ - created.children[key].size) + child.size,
                        !.children[key] = child]
            ELSE this

\* set that does not pass its value on, and so toggles.
setDroppingValue(this, item, value) == setOrToggle(this, item, Undefined)

set(this, item, value) == setOrToggle(this, item, Bool(value))

\* toggle that always selects.
toggleSelecting(this, item) == setOrToggle(this, item, Bool(TRUE))

toggle(this, item) == setOrToggle(this, item, Undefined)

RECURSIVE has(_, _)
has(this, item) ==
    IF item.level = this.item.level
    THEN this.selected
    ELSE LET id == getIdAtLevel(item, this.item.level)
         IN IF id # Undefined /\ hasOwnProperty(this.children, id)
            THEN has(this.children[PropertyKey(id)], item)
            ELSE FALSE

\* hasAnyParent that counts the node of item whatever self is.
RECURSIVE hasAnyParentCountingSelf(_, _, _)
hasAnyParentCountingSelf(this, item, self) ==
    IF this.selected /\ this.item.level <= item.level
    THEN this.selected
    ELSE LET id == getIdAtLevel(item, this.item.level)
         IN IF id # Undefined /\ hasOwnProperty(this.children, id)
            THEN hasAnyParentCountingSelf(this.children[PropertyKey(id)], item, self)
            ELSE FALSE

RECURSIVE hasAnyParent(_, _, _)
hasAnyParent(this, item, self) ==
    IF this.selected /\ this.item.level <= item.level
            /\ (self \/ this.item.level < item.level)
    THEN this.selected
    ELSE LET id == getIdAtLevel(item, this.item.level)
         IN IF id # Undefined /\ hasOwnProperty(this.children, id)
            THEN hasAnyParent(this.children[PropertyKey(id)], item, self)
            ELSE FALSE

\* ignoreIds.indexOf(x) === -1 : strict equality against every element.
NotIgnored(ignoreIds, x) ==
    ignoreIds = Undefined \/ \A i \in 1 .. Len(ignoreIds.arr) : ignoreIds.arr[i] # x

RECURSIVE hasAnyChildren(_, _, _, _)
hasAnyChildren(this, item, self, ignoreIds) ==
    IF this.selected /\ this.item.level >= item.level
            /\ (self \/ this.item.level > item.level)
    THEN this.selected
    ELSE LET id == getIdAtLevel(item, this.item.level)
         IN IF id # Undefined
            THEN IF NotIgnored(ignoreIds, id) /\ hasOwnProperty(this.children, id)
                 THEN hasAnyChildren(this.children[PropertyKey(id)], item, self, ignoreIds)
                 ELSE FALSE
            ELSE \E key \in DOMAIN this.children :
                    /\ NotIgnored(ignoreIds, Str(key))
                    /\ hasAnyChildren(this.children[key], item, self, ignoreIds)

RECURSIVE getSelected(_, _)
RECURSIVE getSelectedIn(_, _, _)
getSelected(this, selected) ==
    getSelectedIn(this, ForInKeys(this),
                  IF this.selected THEN Append(selected, this.item) ELSE selected)
getSelectedIn(this, keys, selected) ==
    IF keys = <<>> THEN selected
    ELSE getSelectedIn(this, Tail(keys), getSelected(this.children[Head(keys)], selected))

\* forEach(callback): the sequence of items the callback is invoked with.
RECURSIVE forEach(_)
RECURSIVE forEachIn(_, _)
forEach(this) ==
    (IF this.selected THEN <<this.item>> ELSE <<>>) \o forEachIn(this, ForInKeys(this))
forEachIn(this, keys) ==
    IF keys = <<>> THEN <<>>
    ELSE forEach(this.children[Head(keys)]) \o forEachIn(this, Tail(keys))

getChild(this, id) ==
    IF hasOwnProperty(this.children, id) THEN this.children[PropertyKey(id)] ELSE Undefined

\* deleteChild that removes the child and keeps this node's size.
deleteChildKeepingSize(this, id) ==
    IF hasOwnProperty(this.children, id)
    THEN LET key == PropertyKey(id)
         IN [this EXCEPT
                !.children = [k \in DOMAIN this.children \ {key} |-> this.children[k]],
                !.keys = SelectSeq(@, LAMBDA k : k # key)]
    ELSE this

deleteChild(this, id) ==
    IF hasOwnProperty(this.children, id)
    THEN LET key == PropertyKey(id)
         IN [this EXCEPT
                !.size = @ - this.children[key].size,
                !.children = [k \in DOMAIN this.children \ {key} |-> this.children[k]],
                !.keys = SelectSeq(@, LAMBDA k : k # key)]
    ELSE this

\* tree.getChild(a).getChild(b)...deleteChild(id): deleteChild invoked on the
\* node addressed by `parent`; that node object is updated in place, the
\* nodes above it are not touched.
RECURSIVE deleteChildOf(_, _, _)
deleteChildOf(this, parent, id) ==
    IF parent.level = this.item.level
    THEN deleteChild(this, id)
    ELSE LET key == PropertyKey(getIdAtLevel(parent, this.item.level))
         IN [this EXCEPT !.children[key] = deleteChildOf(@, parent, id)]

RECURSIVE nodeAt(_, _)
nodeAt(this, item) ==
    IF item.level = this.item.level
    THEN this
    ELSE LET child == getChild(this, getIdAtLevel(item, this.item.level))
         IN IF child = Undefined THEN Undefined ELSE nodeAt(child, item)

ChildIds(parent) ==
    {getIdAtLevel(child, parent.level) :
        child \in {a \in Addresses : a # parent /\ getParent(a) = parent}}

(***************************************************************************)
(* The file store collection (db.ts): fileObservers is a Map, in insertion *)
(* order, from file id to a store holding the loaded document or           *)
(* undefined.                                                              *)
(***************************************************************************)
Loaded(fileId) == [fileId |-> fileId, value |-> [file |-> GPXFileOf(fileId)]]
Pending(fileId) == [fileId |-> fileId, value |-> Undefined]

MapHas(map, fileId) == \E i \in 1 .. Len(map) : map[i].fileId = fileId
MapGet(map, fileId) ==
    IF MapHas(map, fileId)
    THEN (CHOOSE e \in {map[i] : i \in 1 .. Len(map)} : e.fileId = fileId).value
    ELSE Undefined

(***************************************************************************)
(* Selection operations on the process-wide selection store.               *)
(***************************************************************************)
RECURSIVE setEach(_, _)
setEach(this, items) ==
    IF items = <<>> THEN this
    ELSE setEach(set(this, Head(items), TRUE), Tail(items))

\* selectItem that does not clear first.
selectItemAdding(this, item) == set(this, item, TRUE)

selectItem(this, item) == set(clear(this), item, TRUE)

selectFile(this, fileId) == selectItem(this, ListFileItem(fileId))

addSelectItem(this, item) == toggle(this, item)

addSelectFile(this, fileId) == addSelectItem(this, ListFileItem(fileId))

\* The item selectAll takes as current: the last one forEach visits.
currentItem(this) ==
    LET visited == forEach(this)
    IN IF visited = <<>> THEN ListRootItem ELSE visited[Len(visited)]

\* The branches of selectAll's update callback: the tree each leaves and
\* whether it throws (a TypeError on reading .trkseg of a track the
\* document does not have).
selectAllFilesAdding(this, files) ==
    [tree |-> setEach(this, [i \in 1 .. Len(files) |-> ListFileItem(files[i].fileId)]),
     thrown |-> FALSE]

selectAllFiles(this, files) ==
    [tree |-> setEach(clear(this),
                      [i \in 1 .. Len(files) |-> ListFileItem(files[i].fileId)]),
     thrown |-> FALSE]

selectAllTracks(this, files, item) ==
    LET fileStore == MapGet(files, item.fileId)
    IN IF MapHas(files, item.fileId) /\ fileStore # Undefined
       THEN [tree |-> setEach(this,
                [i \in 1 .. Len(fileStore.file.trk) |-> ListTrackItem(item.fileId, i - 1)]),
             thrown |-> FALSE]
       ELSE [tree |-> this, thrown |-> FALSE]

\* The segment branch without the test of fileStore and without the ?. on
\* its value: it throws when the store holds no document for the file.
selectAllSegmentsUnguarded(this, files, item) ==
    LET fileStore == MapGet(files, item.fileId)
    IN IF MapHas(files, item.fileId) /\ fileStore # Undefined
             /\ item.trackIndex + 1 \in DOMAIN fileStore.file.trk
       THEN [tree |-> setEach(this,
                [i \in 1 .. fileStore.file.trk[item.trackIndex + 1].trkseg |->
                    ListTrackSegmentItem(item.fileId, item.trackIndex, i - 1)]),
             thrown |-> FALSE]
       ELSE [tree |-> this, thrown |-> TRUE]

selectAllSegments(this, files, item) ==
    LET fileStore == MapGet(files, item.fileId)
    IN IF MapHas(files, item.fileId) /\ fileStore # Undefined
       THEN IF item.trackIndex + 1 \in DOMAIN fileStore.file.trk
            THEN [tree |-> setEach(this,
                    [i \in 1 .. fileStore.file.trk[item.trackIndex + 1].trkseg |->
                        ListTrackSegmentItem(item.fileId, item.trackIndex, i - 1)]),
                  thrown |-> FALSE]
            ELSE [tree |-> this, thrown |-> TRUE]
       ELSE [tree |-> this, thrown |-> FALSE]

selectAllWaypoints(this, files, item) ==
    LET fileStore == MapGet(files, item.fileId)
    IN IF MapHas(files, item.fileId) /\ fileStore # Undefined
       THEN [tree |-> setEach(this,
                [i \in 1 .. fileStore.file.wpt |-> ListWaypointItem(item.fileId, i - 1)]),
             thrown |-> FALSE]
       ELSE [tree |-> this, thrown |-> FALSE]

selectAll(this, files) ==
    LET item == currentItem(this)
    IN CASE item.level \in {ROOT, FILE} -> selectAllFiles(this, files)
         [] item.level = TRACK -> selectAllTracks(this, files, item)
         [] item.level = SEGMENT -> selectAllSegments(this, files, item)
         [] item.level = WAYPOINT -> selectAllWaypoints(this, files, item)
         [] OTHER -> [tree |-> this, thrown |-> FALSE]


(***************************************************************************)
(* FileList.ts sortItems: the order of the items of one file, ancestors    *)
(* before descendants, tracks before the waypoints, by index within a      *)
(* level; reversed on demand.                                              *)
(***************************************************************************)
SortKey(item) ==
    CASE item.level = TRACK -> <<0, item.trackIndex>>
      [] item.level = SEGMENT -> <<0, item.trackIndex, item.segmentIndex>>
      [] item.level = WAYPOINTS -> <<1>>
      [] item.level = WAYPOINT -> <<1, item.waypointIndex>>
      [] OTHER -> <<>>

RECURSIVE KeyLess(_, _)
KeyLess(a, b) ==
    IF a = <<>> THEN b # <<>>
    ELSE IF b = <<>> THEN FALSE
    ELSE IF Head(a) # Head(b) THEN Head(a) < Head(b)
    ELSE KeyLess(Tail(a), Tail(b))

Reversed(seq) == [i \in 1 .. Len(seq) |-> seq[Len(seq) + 1 - i]]

sortItems(items, reverse) ==
    LET sorted == SortSeq(items, LAMBDA a, b : KeyLess(SortKey(a), SortKey(b)))
    IN IF reverse THEN Reversed(sorted) ELSE sorted

(***************************************************************************)
(* Selection.ts applyToOrderedSelectedItemsFromFile: the sequence of       *)
(* callback invocations (fileId, level, items) it makes.                   *)
(***************************************************************************)
\* What one round of the outer loop collects for fileId.
collectFromFile(this, fileId, reverse) ==
    LET visited == SelectSeq(forEach(this), LAMBDA item : getFileId(item) = fileId)
        items == SelectSeq(visited,
                    LAMBDA item : item.level \in {FILE, TRACK, SEGMENT, WAYPOINTS, WAYPOINT})
    IN [fileId |-> fileId,
        level |-> IF visited = <<>> THEN Undefined ELSE Num(visited[Len(visited)].level),
        items |-> sortItems(items, reverse)]

\* The bridge that invokes the callback also for a file without items.
applyToOrderedSelectedItemsFromFileAlways(this, order, reverse) ==
    [i \in 1 .. Len(order) |-> collectFromFile(this, order[i], reverse)]

applyToOrderedSelectedItemsFromFile(this, order, reverse) ==
    SelectSeq([i \in 1 .. Len(order) |-> collectFromFile(this, order[i], reverse)],
              LAMBDA call : Len(call.items) > 0)

(***************************************************************************)
(* stores.ts updateGPXData: the items whose statistics are merged into     *)
(* gpxStatistics, in the order of the mergeWith calls.                     *)
(***************************************************************************)
\* db.ts getStatistics: a file has statistics when its document is loaded.
getStatistics(files, fileId) == MapGet(files, fileId)

\* items.forEach with the `first` flag of the callback.  The variant merges
\* every item.
mergeEachItem(items, first) == items

RECURSIVE mergeItems(_, _)
mergeItems(items, first) ==
    IF items = <<>> THEN <<>>
    ELSE IF ~(Head(items).level \in {WAYPOINT, WAYPOINTS}) \/ first
         THEN <<Head(items)>> \o mergeItems(Tail(items), FALSE)
         ELSE mergeItems(Tail(items), first)

RECURSIVE mergeCalls(_, _)
mergeCalls(calls, files) ==
    IF calls = <<>> THEN <<>>
    ELSE (IF getStatistics(files, Head(calls).fileId) # Undefined
          THEN mergeItems(Head(calls).items, TRUE)
          ELSE <<>>) \o mergeCalls(Tail(calls), files)

updateGPXData(this, order, files) ==
    mergeCalls(applyToOrderedSelectedItemsFromFile(this, order, FALSE), files)

(***************************************************************************)
(* stores.ts: the subscriber of the selection store.  `unsubscribes` is    *)
(* the Map of the file ids subscribed to (insertion order); `subscribers`  *)
(* lists the callbacks that are subscribed to file observers, each with    *)
(* the file id of its observer and whether that observer was destroyed.    *)
(***************************************************************************)
\* The callback given to fileObserver.subscribe: whether a call of it runs
\* updateGPXData (not the first, synchronous call made by subscribe).
fileObserverCallback(first) == ~first

\* unsubscribe(): the observer drops one callback of this file.
RECURSIVE removeSubscriber(_, _)
removeSubscriber(subs, fileId) ==
    IF subs = <<>> THEN <<>>
    ELSE IF Head(subs).fileId = fileId THEN Tail(subs)
    ELSE <<Head(subs)>> \o removeSubscriber(Tail(subs), fileId)

\* while (unsubscribes.size > 0) { unsubscribe(); unsubscribes.delete(fileId) }
RECURSIVE unsubscribeAll(_, _)
unsubscribeAll(unsubs, subs) ==
    IF unsubs = <<>> THEN [unsubscribes |-> <<>>, subscribers |-> subs]
    ELSE unsubscribeAll(Tail(unsubs), removeSubscriber(subs, Head(unsubs)))

\* $selection.forEach((item) => { ... fileObserver.subscribe(...) ... })
RECURSIVE subscribeEach(_, _, _)
subscribeEach(items, files, state) ==
    IF items = <<>> THEN state
    ELSE LET fileId == getFileId(Head(items))
         IN IF ~(\E i \in 1 .. Len(state.unsubscribes) : state.unsubscribes[i] = fileId)
                 /\ MapHas(files, fileId)
            THEN subscribeEach(Tail(items), files,
                    [unsubscribes |-> Append(state.unsubscribes, fileId),
                     subscribers |-> Append(state.subscribers,
                                            [fileId |-> fileId, destroyed |-> FALSE]),
                     recomputes |-> state.recomputes
                                      + (IF fileObserverCallback(TRUE) THEN 1 ELSE 0)])
            ELSE subscribeEach(Tail(items), files, state)

\* The subscriber that forgets its subscriptions without unsubscribing.
selectionSubscriberLeaking(this, files, order, unsubs, subs) ==
    LET subscribed == subscribeEach(forEach(this), files,
                          [unsubscribes |-> <<>>, subscribers |-> subs, recomputes |-> 1])
    IN [gpxStatistics |-> updateGPXData(this, order, files),
        unsubscribes |-> subscribed.unsubscribes,
        subscribers |-> subscribed.subscribers,
        recomputes |-> subscribed.recomputes]

selectionSubscriber(this, files, order, unsubs, subs) ==
    LET released == unsubscribeAll(unsubs, subs)
        subscribed == subscribeEach(forEach(this), files,
                          [unsubscribes |-> released.unsubscribes,
                           subscribers |-> released.subscribers,
                           recomputes |-> 1])
    IN [gpxStatistics |-> updateGPXData(this, order, files),
        unsubscribes |-> subscribed.unsubscribes,
        subscribers |-> subscribed.subscribers,
        recomputes |-> subscribed.recomputes]

\* An update of the observer of fileId: how many of its callbacks recompute.
recomputesOnUpdate(subs, fileId) ==
    Cardinality({i \in 1 .. Len(subs) :
                    /\ subs[i].fileId = fileId
                    /\ ~subs[i].destroyed
                    /\ fileObserverCallback(FALSE)})

\* Selection.ts on its own: the selection store has no subscriber.
Init ==
    /\ selection = SelectionTreeType(ListRootItem)
    /\ fileObservers = <<Loaded("f1"), Loaded("f2")>>
    /\ lastOp = [op |-> "init"]
    /\ steps = 0
    /\ storesLoaded = FALSE
    /\ fileOrder = <<"f2", "f1">>
    /\ gpxStatistics = <<>>
    /\ unsubscribes = <<>>
    /\ subscribers = <<>>
    /\ notified = <<>>
    /\ recomputes = 0

\* With stores.ts loaded: selection.subscribe has registered the subscriber
\* and run it once, on the empty tree.
InitStores(files, order) ==
    /\ selection = SelectionTreeType(ListRootItem)
    /\ fileObservers = files
    /\ lastOp = [op |-> "init"]
    /\ steps = 0
    /\ storesLoaded = TRUE
    /\ fileOrder = order
    /\ notified = <<SelectionTreeType(ListRootItem)>>
    /\ \E handled \in {selectionSubscriber(SelectionTreeType(ListRootItem), files, order,
                                             <<>>, <<>>)} :
          /\ gpxStatistics = handled.gpxStatistics
          /\ unsubscribes = handled.unsubscribes
          /\ subscribers = handled.subscribers
          /\ recomputes = handled.recomputes

\* A method called on the tree object itself: the store is not set, no
\* subscriber runs.
Unnotified ==
    /\ notified' = <<>>
    /\ recomputes' = 0
    /\ UNCHANGED <<storesLoaded, fileOrder, gpxStatistics, unsubscribes, subscribers>>

\* selection.update(callback): unless the callback throws, the store is set
\* to the tree and its subscriber, if stores.ts registered it, runs once.
Updated(result) ==
    \E done \in {result} :
        /\ selection' = done.tree
        /\ UNCHANGED fileObservers
        /\ IF done.thrown \/ ~storesLoaded
           THEN Unnotified
           ELSE \E handled \in {selectionSubscriber(done.tree, fileObservers, fileOrder,
                                                     unsubscribes, subscribers)} :
                    /\ notified' = <<done.tree>>
                    /\ gpxStatistics' = handled.gpxStatistics
                    /\ unsubscribes' = handled.unsubscribes
                    /\ subscribers' = handled.subscribers
                    /\ recomputes' = handled.recomputes
                    /\ UNCHANGED <<storesLoaded, fileOrder>>

Step(op) ==
    /\ steps < MaxSteps
    /\ steps' = steps + 1
    /\ lastOp' = op

\* $selection.set(item, value)
Set(item, value) ==
    /\ Step([op |-> "set", item |-> item, value |-> value,
              had |-> has(selection, item)])
    /\ selection' = set(selection, item, value)
    /\ UNCHANGED fileObservers
    /\ Unnotified

\* $selection.toggle(item)
Toggle(item) ==
    /\ Step([op |-> "toggle", item |-> item,
              again |-> lastOp = [op |-> "toggle", item |-> item, again |-> FALSE]])
    /\ selection' = toggle(selection, item)
    /\ UNCHANGED fileObservers
    /\ Unnotified

\* $selection.clear()
Clear ==
    /\ Step([op |-> "clear", cleared |-> selection.size])
    /\ selection' = clear(selection)
    /\ UNCHANGED fileObservers
    /\ Unnotified

\* deleteChild(id) on the root or on a node obtained through getChild
DeleteChild(parent, id) ==
    /\ nodeAt(selection, parent) # Undefined
    /\ Step([op |-> "deleteChild", item |-> parent, id |-> id,
              removed |-> IF getChild(nodeAt(selection, parent), id) = Undefined THEN 0
                          ELSE getChild(nodeAt(selection, parent), id).size])
    /\ selection' = deleteChildOf(selection, parent, id)
    /\ UNCHANGED fileObservers
    /\ Unnotified

SelectItem(item) ==
    /\ Step([op |-> "selectItem", item |-> item])
    /\ Updated([tree |-> selectItem(selection, item), thrown |-> FALSE])

SelectFile(fileId) ==
    /\ Step([op |-> "selectFile", item |-> ListFileItem(fileId)])
    /\ Updated([tree |-> selectFile(selection, fileId), thrown |-> FALSE])

AddSelectItem(item) ==
    /\ Step([op |-> "addSelectItem", item |-> item])
    /\ Updated([tree |-> addSelectItem(selection, item), thrown |-> FALSE])

AddSelectFile(fileId) ==
    /\ Step([op |-> "addSelectFile", item |-> ListFileItem(fileId)])
    /\ Updated([tree |-> addSelectFile(selection, fileId), thrown |-> FALSE])

SelectAll ==
    LET result == selectAll(selection, fileObservers)
    IN /\ Step([op |-> "selectAll", item |-> currentItem(selection),
                thrown |-> result.thrown])
       /\ Updated(result)

\* db.ts: a file is opened (its store holds undefined until the document is
\* read), its document arrives, the document is edited, the file is deleted.
\* Setting the store of a file runs the callbacks subscribed to it.
ObserverSet(fileId) ==
    /\ recomputes' = recomputesOnUpdate(subscribers, fileId)
    /\ gpxStatistics' = IF recomputes' > 0
                        THEN updateGPXData(selection, fileOrder, fileObservers')
                        ELSE gpxStatistics
    /\ notified' = <<>>
    /\ UNCHANGED <<selection, storesLoaded, fileOrder, unsubscribes, subscribers>>

FileOpened(fileId) ==
    /\ ~MapHas(fileObservers, fileId)
    /\ Step([op |-> "fileOpened", fileId |-> fileId])
    /\ fileObservers' = Append(fileObservers, Pending(fileId))
    /\ UNCHANGED selection
    /\ Unnotified

FileLoaded(fileId) ==
    /\ MapHas(fileObservers, fileId)
    /\ MapGet(fileObservers, fileId) = Undefined
    /\ Step([op |-> "fileLoaded", fileId |-> fileId])
    /\ fileObservers' =
          [i \in 1 .. Len(fileObservers) |->
              IF fileObservers[i].fileId = fileId THEN Loaded(fileId) ELSE fileObservers[i]]
    /\ ObserverSet(fileId)

FileUpdated(fileId) ==
    /\ MapHas(fileObservers, fileId)
    /\ MapGet(fileObservers, fileId) # Undefined
    /\ Step([op |-> "fileUpdated", fileId |-> fileId])
    /\ UNCHANGED fileObservers
    /\ ObserverSet(fileId)

FileDeleted(fileId) ==
    /\ MapHas(fileObservers, fileId)
    /\ Step([op |-> "fileDeleted", fileId |-> fileId])
    /\ fileObservers' = SelectSeq(fileObservers, LAMBDA e : e.fileId # fileId)
    /\ subscribers' =
          [i \in 1 .. Len(subscribers) |->
              IF subscribers[i].fileId = fileId
              THEN [subscribers[i] EXCEPT !.destroyed = TRUE]
              ELSE subscribers[i]]
    /\ notified' = <<>>
    /\ recomputes' = 0
    /\ UNCHANGED <<selection, storesLoaded, fileOrder, gpxStatistics, unsubscribes>>

\* The ignoreIds arguments the queries are called with.
IgnoreIdsValues ==
    {Undefined, [arr |-> <<Str("waypoints")>>], [arr |-> <<Num(0)>>],
     [arr |-> <<Str("0"), Str("f1")>>]}

\* A consumer of the bridge: the callback invocations are recorded.
ApplyToOrderedSelectedItemsFromFile(reverse) ==
    /\ Step([op |-> "applyToOrderedSelectedItemsFromFile", reverse |-> reverse,
              calls |-> applyToOrderedSelectedItemsFromFile(selection, fileOrder, reverse)])
    /\ UNCHANGED <<selection, fileObservers>>
    /\ Unnotified

Next ==
    \/ \E item \in Items, value \in BOOLEAN : Set(item, value)
    \/ \E item \in Items : Toggle(item)
    \/ Clear
    \/ \E parent \in Addresses : \E id \in ChildIds(parent) : DeleteChild(parent, id)
    \/ \E item \in Items : SelectItem(item)
    \/ \E fileId \in FileIds : SelectFile(fileId)
    \/ \E item \in Items : AddSelectItem(item)
    \/ \E fileId \in FileIds : AddSelectFile(fileId)
    \/ SelectAll
    \/ \E fileId \in FileIds : FileOpened(fileId)
    \/ \E fileId \in FileIds : FileLoaded(fileId)
    \/ \E fileId \in FileIds : FileDeleted(fileId)

Spec == Init /\ [][Next]_vars

\* The sequences of set and toggle calls on a tree that starts empty.
NextSetToggle ==
    \/ \E item \in Items, value \in BOOLEAN : Set(item, value)
    \/ \E item \in Items : Toggle(item)

SpecSetToggle == Init /\ [][NextSetToggle]_vars

\* The program with stores.ts loaded: the selection operations, the bridge
\* and the events of the file store, from the file stores and file orders
\* below.
FileStores == {<<Loaded("f1"), Loaded("f2")>>, <<Loaded("f1")>>}
FileOrders == {<<"f2", "f1">>, <<"f1">>}

InitStore == \E files \in FileStores : \E order \in FileOrders : InitStores(files, order)

NextStore ==
    \/ \E item \in Items : SelectItem(item)
    \/ \E fileId \in FileIds : SelectFile(fileId)
    \/ \E item \in Items : AddSelectItem(item)
    \/ \E fileId \in FileIds : AddSelectFile(fileId)
    \/ SelectAll
    \/ \E reverse \in BOOLEAN : ApplyToOrderedSelectedItemsFromFile(reverse)
    \/ \E fileId \in FileIds : FileOpened(fileId)
    \/ \E fileId \in FileIds : FileLoaded(fileId)
    \/ \E fileId \in FileIds : FileUpdated(fileId)
    \/ \E fileId \in FileIds : FileDeleted(fileId)

SpecStore == InitStore /\ [][NextStore]_vars

TypeOK == steps \in 0 .. MaxSteps

(***************************************************************************)
(* Vocabulary of the properties.                                           *)
(***************************************************************************)
AsSet(seq) == {seq[i] : i \in 1 .. Len(seq)}
\* The addresses of the nodes whose selected flag is true.
RECURSIVE SelectedSet(_)
SelectedSet(this) ==
    (IF this.selected THEN {this.item} ELSE {})
        \cup UNION {SelectedSet(this.children[key]) : key \in DOMAIN this.children}
SizeAt(this, item) ==
    IF nodeAt(this, item) = Undefined THEN 0 ELSE nodeAt(this, item).size

RECURSIVE SizesExact(_)
SizesExact(this) ==
    /\ this.size = Len(getSelected(this, <<>>))
    /\ \A key \in DOMAIN this.children : SizesExact(this.children[key])

RECURSIVE SizesZero(_)
SizesZero(this) ==
    /\ this.size = 0
    /\ \A key \in DOMAIN this.children : SizesZero(this.children[key])

(***************************************************************************)
(* C1.  After any sequence of set and toggle calls on a tree that starts   *)
(* empty, the size of the root is the number of nodes whose selected flag  *)
(* is true, which is the length of getSelected().                          *)
(***************************************************************************)
C1_RootSizeIsSelectedCount ==
    /\ selection.size = Len(getSelected(selection, <<>>))
    /\ selection.size = Cardinality(SelectedSet(selection))

C1_Witness ==
    /\ lastOp.op = "toggle"
    /\ steps = MaxSteps
    /\ selection.size = 2
    /\ has(selection, ListRootItem)
    /\ \E item \in Items : item.level \in {SEGMENT, WAYPOINT} /\ has(selection, item)

(***************************************************************************)
(* C2.  After every mutating operation (set, toggle, clear, deleteChild,   *)
(* also deleteChild on a node obtained through getChild) every node's size *)
(* is the number of selected nodes of its own subtree.                     *)
(***************************************************************************)
C2_EverySizeExact == SizesExact(selection)

(***************************************************************************)
(* C3.  selectItem(item) in any reachable state leaves exactly the node    *)
(* addressed by item selected: has(item), no other address is selected,    *)
(* getSelected() is <<item>> and the size of the root is 1.                *)
(***************************************************************************)
OnlySelected(this, item) ==
    /\ has(this, item)
    /\ \A other \in Addresses \ {item} : ~has(this, other)
    /\ SelectedSet(this) = {item}
    /\ getSelected(this, <<>>) = <<item>>
    /\ this.size = 1

C3_SelectItemSelectsOnlyItem ==
    lastOp.op \in {"selectItem", "selectFile"} => OnlySelected(selection, lastOp.item)

C3_Witness ==
    /\ lastOp.op = "selectItem"
    /\ lastOp.item = ListTrackItem("f1", 0)
    /\ nodeAt(selection, ListTrackItem("f1", 1)) # Undefined
    /\ nodeAt(selection, ListFileItem("f2")) # Undefined
    /\ selection.size = 1

(***************************************************************************)
(* C4.  As claimed: selectAll() clears the previous selection and          *)
(* re-selects, so that afterwards the selected set is exactly the set of   *)
(* all items at the level of the current item (all files; all tracks of    *)
(* its file; all segments of its track; all waypoints of its file).        *)
(***************************************************************************)
HasDocument(files, item) ==
    /\ item.level # ROOT
    /\ MapGet(files, item.fileId) # Undefined
    /\ item.level = SEGMENT => item.trackIndex + 1 \in DOMAIN MapGet(files, item.fileId).file.trk

\* All items at the level of item, as the documents of the file store list them.
AllAtLevelOf(files, item) ==
    CASE item.level \in {ROOT, FILE} -> {ListFileItem(files[i].fileId) : i \in 1 .. Len(files)}
      [] item.level = TRACK /\ HasDocument(files, item) ->
            {ListTrackItem(item.fileId, t - 1) :
                t \in DOMAIN MapGet(files, item.fileId).file.trk}
      [] item.level = SEGMENT /\ HasDocument(files, item) ->
            {ListTrackSegmentItem(item.fileId, item.trackIndex, s - 1) :
                s \in 1 .. MapGet(files, item.fileId).file.trk[item.trackIndex + 1].trkseg}
      [] item.level = WAYPOINT /\ HasDocument(files, item) ->
            {ListWaypointItem(item.fileId, w - 1) :
                w \in 1 .. MapGet(files, item.fileId).file.wpt}
      [] OTHER -> {}

C4_SelectAllReplacesSelection ==
    (/\ lastOp.op = "selectAll"
     /\ lastOp.item.level \in {ROOT, FILE} \/
            (/\ lastOp.item.level \in {TRACK, SEGMENT, WAYPOINT}
             /\ HasDocument(fileObservers, lastOp.item)
             /\ lastOp.item \in AllAtLevelOf(fileObservers, lastOp.item)))
        => SelectedSet(selection) = AllAtLevelOf(fileObservers, lastOp.item)

(***************************************************************************)
(* C4, amended.  selectAll() clears the previous selection only when the   *)
(* current item is the root or a FileItem (or nothing is selected): then   *)
(* exactly the files of the file store are selected.  When the current     *)
(* item is a TrackItem, TrackSegmentItem or WaypointItem it selects the    *)
(* tracks of its file, the segments of its track or the waypoints of its   *)
(* file that the store's document lists, in addition to what was selected: *)
(* nothing is deselected.  Nothing changes when the current item is a      *)
(* WaypointsItem, when the store holds no document for the file, or when   *)
(* the document lacks the segment's track, where selectAll throws.         *)
(***************************************************************************)
C4_Step ==
    (lastOp'.op = "selectAll" /\ steps' = steps + 1) =>
        /\ lastOp'.item = currentItem(selection)
        /\ SelectedSet(selection') =
              IF lastOp'.item.level \in {ROOT, FILE}
              THEN AllAtLevelOf(fileObservers, lastOp'.item)
              ELSE SelectedSet(selection) \cup AllAtLevelOf(fileObservers, lastOp'.item)
        /\ lastOp'.thrown =>
              /\ selection' = selection
              /\ lastOp'.item.level = SEGMENT
              /\ MapGet(fileObservers, lastOp'.item.fileId) # Undefined
              /\ ~HasDocument(fileObservers, lastOp'.item)
        /\ (lastOp'.item.level \notin {ROOT, FILE}
                /\ ~HasDocument(fileObservers, lastOp'.item)) => selection' = selection

C4_SelectAllAmended == [][C4_Step]_vars

C4_Witness ==
    /\ lastOp.op = "selectAll"
    /\ lastOp.item = ListTrackItem("f1", 0)
    /\ SelectedSet(selection) =
          {ListFileItem("f2"), ListTrackItem("f1", 0), ListTrackItem("f1", 1)}

(***************************************************************************)
(* C5.  When exactly one TrackItem is selected, of a file whose document   *)
(* is in the file store, selectAll() leaves exactly the TrackItems of that *)
(* file selected and the root size is the number of tracks of the file; a  *)
(* single selected FileItem, or an empty selection, gives exactly the      *)
(* files of the file store, with root size the number of files.            *)
(***************************************************************************)
C5_SelectAllFromSingleItem ==
    LET selected == getSelected(selection, <<>>)
        result == selectAll(selection, fileObservers).tree
    IN /\ (/\ Len(selected) = 1
           /\ selected[1].level = TRACK
           /\ HasDocument(fileObservers, selected[1])
           /\ selected[1] \in AllAtLevelOf(fileObservers, selected[1]))
            => /\ SelectedSet(result) = AllAtLevelOf(fileObservers, selected[1])
               /\ AsSet(getSelected(result, <<>>)) = AllAtLevelOf(fileObservers, selected[1])
               /\ result.size = Len(MapGet(fileObservers, selected[1].fileId).file.trk)
       /\ (selected = <<>> \/ (Len(selected) = 1 /\ selected[1].level = FILE))
            => /\ SelectedSet(result) = AllAtLevelOf(fileObservers, ListRootItem)
               /\ result.size = Len(fileObservers)

(***************************************************************************)
(* C6.  After clear() every query is negative: has, hasAnyParent and       *)
(* hasAnyChildren are false for every item, for both values of self and    *)
(* every ignoreIds; getSelected() is empty, forEach calls its callback     *)
(* zero times, and every node has size 0.                                  *)
(***************************************************************************)
C6_ClearMakesQueriesNegative ==
    lastOp.op = "clear" =>
        /\ \A item \in Addresses :
              /\ ~has(selection, item)
              /\ \A self \in BOOLEAN :
                    /\ ~hasAnyParent(selection, item, self)
                    /\ \A ignoreIds \in IgnoreIdsValues :
                          ~hasAnyChildren(selection, item, self, ignoreIds)
        /\ getSelected(selection, <<>>) = <<>>
        /\ forEach(selection) = <<>>
        /\ SizesZero(selection)

C6_Witness ==
    /\ lastOp.op = "clear"
    /\ lastOp.cleared = 2
    /\ nodeAt(selection, ListTrackSegmentItem("f1", 0, 0)) # Undefined
    /\ nodeAt(selection, ListWaypointItem("f1", 0)) # Undefined

(***************************************************************************)
(* C7.  deleteChild(fileId) on the root, when the file node has size n,    *)
(* lowers the root's size by exactly n and removes the selection state of  *)
(* the file: for every item of the file has and hasAnyChildren are false   *)
(* and hasAnyParent is true only if the root itself is selected;           *)
(* getSelected() holds no item of the file; the state of every other file  *)
(* and of the root's own flag is unchanged.                                *)
(***************************************************************************)
C7_Step ==
    (/\ lastOp'.op = "deleteChild"
     /\ steps' = steps + 1
     /\ lastOp'.item = ListRootItem
     /\ hasOwnProperty(selection.children, lastOp'.id))
        => LET fileId == lastOp'.id.str
               n == selection.children[fileId].size
               after == getSelected(selection', <<>>)
           IN /\ lastOp'.removed = n
              /\ selection'.size = selection.size - n
              /\ \A item \in Addresses :
                    IF getFileId(item) = fileId
                    THEN /\ ~has(selection', item)
                         /\ \A self \in BOOLEAN :
                               /\ hasAnyParent(selection', item, self) = selection'.selected
                               /\ \A ignoreIds \in IgnoreIdsValues :
                                     ~hasAnyChildren(selection', item, self, ignoreIds)
                    ELSE has(selection', item) = has(selection, item)
              /\ \A i \in 1 .. Len(after) : getFileId(after[i]) # fileId
              /\ fileId \notin DOMAIN selection'.children
              /\ \A key \in DOMAIN selection.children \ {fileId} :
                    /\ key \in DOMAIN selection'.children
                    /\ selection'.children[key] = selection.children[key]

C7_DeleteChildOfRoot == [][C7_Step]_vars

C7_Witness ==
    /\ lastOp.op = "deleteChild"
    /\ lastOp.item = ListRootItem
    /\ lastOp.id = Str("f1")
    /\ lastOp.removed = 2
    /\ selection.size = 0

(***************************************************************************)
(* C8.  toggle(item) twice in succession restores the selection state: the *)
(* set of selected addresses and the size of every node on the path from   *)
(* the root to item are as before the two calls.                           *)
(***************************************************************************)
C8_Step ==
    (lastOp'.op \in {"toggle", "addSelectItem", "addSelectFile"} /\ steps' = steps + 1)
        => \A twice \in {toggle(selection', lastOp'.item)} :
              /\ has(selection', lastOp'.item) # has(selection, lastOp'.item)
              /\ SelectedSet(twice) = SelectedSet(selection)
              /\ \A node \in PathItems(lastOp'.item) :
                    SizeAt(twice, node) = SizeAt(selection, node)

C8_ToggleTwiceRestores == [][C8_Step]_vars

C8_Witness ==
    /\ lastOp.op = "toggle"
    /\ lastOp.again
    /\ lastOp.item.level = SEGMENT
    /\ ~has(selection, lastOp.item)
    /\ selection.size = 1

(***************************************************************************)
(* C9.  After set(item, value) has(item) is value (true after set true,    *)
(* false after a following set false), and a set with the value the node   *)
(* already has changes no selected flag and no size.                       *)
(***************************************************************************)
C9_Step ==
    (lastOp'.op = "set" /\ steps' = steps + 1)
        => LET item == lastOp'.item
               value == lastOp'.value
           IN /\ has(selection', item) = value
              /\ lastOp'.had = has(selection, item)
              /\ has(selection, item) = value =>
                    /\ SelectedSet(selection') = SelectedSet(selection)
                    /\ \A node \in Addresses : SizeAt(selection', node) = SizeAt(selection, node)

C9_SetThenHas == [][C9_Step]_vars

C9_Witness ==
    /\ lastOp.op = "set"
    /\ lastOp.value
    /\ lastOp.had
    /\ lastOp.item.level = TRACK
    /\ selection.size = 1

(***************************************************************************)
(* C10.  hasAnyParent(item, self) is true exactly when some node on the    *)
(* path from the root to item is selected, the node of item counting only  *)
(* when self is true; it is false for self = false right after             *)
(* selectItem(item).                                                       *)
(***************************************************************************)
C10_HasAnyParentIsPathSelected ==
    /\ LET selected == SelectedSet(selection)
       IN \A item \in Addresses : \A self \in BOOLEAN :
             hasAnyParent(selection, item, self) <=>
                 \E node \in PathItems(item) : (self \/ node # item) /\ node \in selected
    /\ lastOp.op = "selectItem" => ~hasAnyParent(selection, lastOp.item, FALSE)

C10_Witness ==
    /\ lastOp.op = "selectItem"
    /\ lastOp.item = ListTrackItem("f1", 0)
    /\ hasAnyParent(selection, lastOp.item, TRUE)
    /\ ~hasAnyParent(selection, lastOp.item, FALSE)
    /\ hasAnyParent(selection, ListTrackSegmentItem("f1", 0, 0), FALSE)
    /\ ~hasAnyParent(selection, ListTrackItem("f1", 1), TRUE)

(***************************************************************************)
(* C11.  hasAnyChildren(item, self, ignoreIds) is true exactly when a      *)
(* selected node exists in the subtree rooted at item (the node of item    *)
(* counting only when self is true) that does not lie in a branch whose    *)
(* immediate child id directly under item is in ignoreIds; ids in          *)
(* ignoreIds exclude neither the nodes on the path from the root to item   *)
(* nor deeper descendants that carry the same id.                          *)
(***************************************************************************)
C11_HasAnyChildrenIgnoresBranches ==
    LET selected == SelectedSet(selection)
    IN \A item \in Addresses : \A self \in BOOLEAN : \A ignoreIds \in IgnoreIdsValues :
          hasAnyChildren(selection, item, self, ignoreIds) <=>
              \E node \in selected :
                  /\ item \in PathItems(node)
                  /\ IF node = item THEN self
                     ELSE NotIgnored(ignoreIds, getIdAtLevel(node, item.level))

(***************************************************************************)
(* C15.  set(item, value) and toggle(item) change the selected flag of at  *)
(* most the node addressed by item: the flag of every ancestor, descendant *)
(* and unrelated node is the same after the call as before.                *)
(***************************************************************************)
C15_Step ==
    (lastOp'.op \in {"set", "toggle"} /\ steps' = steps + 1)
        => /\ SelectedSet(selection') \ {lastOp'.item} = SelectedSet(selection) \ {lastOp'.item}
           /\ \A other \in Addresses \ {lastOp'.item} :
                 has(selection', other) = has(selection, other)

C15_SetTogglesOneFlag == [][C15_Step]_vars

C15_Witness ==
    /\ lastOp.op = "toggle"
    /\ lastOp.item = ListTrackItem("f1", 0)
    /\ SelectedSet(selection) =
          {ListFileItem("f1"), ListTrackItem("f1", 0), ListTrackSegmentItem("f1", 0, 0)}

(***************************************************************************)
(* C17.  As claimed: a node is present in a children mapping only if,      *)
(* since the most recent clear(), it was the target of a set or toggle     *)
(* call or is an ancestor of such a target.  Right after clear() no child  *)
(* node is present, and right after selectItem(item), which clears and     *)
(* then sets item, only the nodes on the path to item are.                 *)
(***************************************************************************)
RECURSIVE Nodes(_)
Nodes(this) ==
    {this.item} \cup UNION {Nodes(this.children[key]) : key \in DOMAIN this.children}

C17_OnlyTouchedSinceClear ==
    /\ lastOp.op = "clear" => Nodes(selection) = {ListRootItem}
    /\ lastOp.op \in {"selectItem", "selectFile"} =>
          Nodes(selection) \subseteq PathItems(lastOp.item)

(***************************************************************************)
(* C17, amended.  A node is present in a children mapping only if, since   *)
(* the tree was constructed or since the deleteChild that last removed it, *)
(* it was the target of a set or toggle call or is an ancestor of such a   *)
(* target.  clear() removes no node: the nodes touched before the most     *)
(* recent clear() stay present, with selected false and size 0.  Only      *)
(* deleteChild removes nodes: the child it names and that child's subtree. *)
(***************************************************************************)
C17_Step ==
    steps' = steps + 1 =>
        LET before == Nodes(selection)
            after == Nodes(selection')
        IN CASE lastOp'.op \in {"set", "toggle", "selectItem", "selectFile",
                                 "addSelectItem", "addSelectFile"} ->
                    after = before \cup PathItems(lastOp'.item)
             [] lastOp'.op = "clear" ->
                    /\ after = before
                    /\ SelectedSet(selection') = {}
                    /\ SizesZero(selection')
             [] lastOp'.op = "deleteChild" ->
                    after = {node \in before :
                                \A above \in PathItems(node) :
                                    \/ above = lastOp'.item
                                    \/ getParent(above) # lastOp'.item
                                    \/ getIdAtLevel(above, lastOp'.item.level) # lastOp'.id}
             [] lastOp'.op = "selectAll" ->
                    /\ before \subseteq after
                    /\ after \ before \subseteq
                          UNION {PathItems(item) :
                                    item \in AllAtLevelOf(fileObservers, lastOp'.item)}
             [] OTHER -> after = before

C17_NodesStayAcrossClear == [][C17_Step]_vars

C17_Witness ==
    /\ lastOp.op = "clear"
    /\ lastOp.cleared = 1
    /\ Nodes(selection) =
          PathItems(ListTrackSegmentItem("f1", 0, 0)) \cup PathItems(ListFileItem("f2"))

(***************************************************************************)
(* C12.  applyToOrderedSelectedItemsFromFile invokes the callback exactly  *)
(* once for each file id of the file order list that has a selected        *)
(* non-root item, in the order of the list, and never for a file id with   *)
(* no selected item; the items of a call are exactly the selected items of *)
(* that file.  With file order <<f2, f1>> and items selected in f1 only    *)
(* there is one call, for f1.                                              *)
(***************************************************************************)
SelectedOfFile(this, fileId) ==
    {item \in SelectedSet(this) : item.level # ROOT /\ getFileId(item) = fileId}

C12_BridgeCallsPerFile ==
    lastOp.op = "applyToOrderedSelectedItemsFromFile" =>
        /\ [i \in 1 .. Len(lastOp.calls) |-> lastOp.calls[i].fileId]
              = SelectSeq(fileOrder, LAMBDA fileId : SelectedOfFile(selection, fileId) # {})
        /\ \A i \in 1 .. Len(lastOp.calls) :
              /\ AsSet(lastOp.calls[i].items)
                    = SelectedOfFile(selection, lastOp.calls[i].fileId)
              /\ Len(lastOp.calls[i].items)
                    = Cardinality(SelectedOfFile(selection, lastOp.calls[i].fileId))

C12_Witness ==
    /\ lastOp.op = "applyToOrderedSelectedItemsFromFile"
    /\ fileOrder = <<"f2", "f1">>
    /\ Len(lastOp.calls) = 1
    /\ lastOp.calls[1].fileId = "f1"
    /\ Len(lastOp.calls[1].items) = 2
    /\ SelectedOfFile(selection, "f2") = {}

(***************************************************************************)
(* C13.  Each call of a selection operation (selectItem, selectFile,       *)
(* addSelectItem, addSelectFile, selectAll) notifies the subscribers of    *)
(* the selection store exactly once, after all its mutations of the tree:  *)
(* the one state a subscriber observes is the final tree.                  *)
(***************************************************************************)
C13_NotifiesExactlyOnce ==
    lastOp.op \in {"selectItem", "selectFile", "addSelectItem", "addSelectFile", "selectAll"}
        => notified = <<selection>>

(***************************************************************************)
(* C14.  As claimed: when the statistics are recomputed, the aggregator is *)
(* invoked exactly once for every selected item of every file of the file  *)
(* order list that has statistics, the selected waypoint and               *)
(* waypoints-group items included.                                         *)
(***************************************************************************)
FilesWithStatistics ==
    {fileId \in AsSet(fileOrder) : getStatistics(fileObservers, fileId) # Undefined}

C14_MergesEverySelectedItem ==
    recomputes > 0 =>
        /\ AsSet(gpxStatistics)
              = UNION {SelectedOfFile(selection, fileId) : fileId \in FilesWithStatistics}
        /\ Len(gpxStatistics) = Cardinality(AsSet(gpxStatistics))

(***************************************************************************)
(* C14, amended.  When the statistics are recomputed, the aggregator is    *)
(* invoked exactly once for every selected FileItem, TrackItem and         *)
(* TrackSegmentItem of every file of the file order list that has          *)
(* statistics.  A selected waypoint or waypoints-group item is merged only *)
(* when it is the first item of the sorted batch of its file, that is when *)
(* it precedes every other selected item of the file in the ListItem       *)
(* order; any other selected waypoint or waypoints-group item is skipped.  *)
(***************************************************************************)
MergedOfFile(this, fileId) ==
    LET items == SelectedOfFile(this, fileId)
    IN {item \in items :
            \/ item.level \notin {WAYPOINT, WAYPOINTS}
            \/ \A other \in items \ {item} : KeyLess(SortKey(item), SortKey(other))}

C14_MergesWaypointsOnlyFirst ==
    recomputes > 0 =>
        /\ AsSet(gpxStatistics)
              = UNION {MergedOfFile(selection, fileId) : fileId \in FilesWithStatistics}
        /\ Len(gpxStatistics) = Cardinality(AsSet(gpxStatistics))

C14_Witness ==
    /\ recomputes = 1
    /\ lastOp.op = "addSelectItem"
    /\ SelectedSet(selection) =
          {ListTrackItem("f1", 0), ListWaypointsItem("f1"), ListWaypointItem("f1", 0)}
    /\ gpxStatistics = <<ListTrackItem("f1", 0)>>

(***************************************************************************)
(* C18.  If the file of the item that selectAll() takes as current (a      *)
(* TrackItem, TrackSegmentItem or WaypointItem) has no entry in the file   *)
(* store, or its entry holds no document, selectAll() raises no error and  *)
(* leaves the selected items and all sizes unchanged.                      *)
(***************************************************************************)
C18_Step ==
    (/\ lastOp'.op = "selectAll"
     /\ steps' = steps + 1
     /\ currentItem(selection).level \in {TRACK, SEGMENT, WAYPOINT}
     /\ MapGet(fileObservers, currentItem(selection).fileId) = Undefined)
        => /\ ~lastOp'.thrown
           /\ SelectedSet(selection') = SelectedSet(selection)
           /\ \A node \in Addresses : SizeAt(selection', node) = SizeAt(selection, node)
           /\ Nodes(selection') = Nodes(selection)

C18_SelectAllToleratesMissingFile == [][C18_Step]_vars

C18_Witness ==
    /\ lastOp.op = "selectAll"
    /\ lastOp.item = ListTrackSegmentItem("f2", 1, 0)
    /\ MapHas(fileObservers, "f2")
    /\ MapGet(fileObservers, "f2") = Undefined
    /\ ~lastOp.thrown
    /\ SelectedSet(selection) = {lastOp.item}

(***************************************************************************)
(* C19.  After the subscriber of stores.ts has handled a selection         *)
(* notification, the unsubscribes map holds exactly one live subscription  *)
(* for each file id that has a selected item and an entry in               *)
(* fileObservers, and none for any other file; every subscription made     *)
(* while handling an earlier notification has been unsubscribed, so that   *)
(* subscriptions never accumulate.                                         *)
(***************************************************************************)
SubscribedFiles ==
    {fileId \in FileIds :
        /\ MapHas(fileObservers, fileId)
        /\ \E item \in SelectedSet(selection) : getFileId(item) = fileId}

C19_OneSubscriptionPerSelectedFile ==
    notified # <<>> =>
        /\ AsSet(unsubscribes) = SubscribedFiles
        /\ Len(unsubscribes) = Cardinality(SubscribedFiles)
        /\ Len(subscribers) = Cardinality(SubscribedFiles)
        /\ \A i \in 1 .. Len(subscribers) :
              /\ subscribers[i].fileId \in SubscribedFiles
              /\ ~subscribers[i].destroyed

C19_Witness ==
    /\ notified # <<>>
    /\ steps = MaxSteps
    /\ lastOp.op = "selectItem"
    /\ lastOp.item = ListTrackItem("f2", 0)
    /\ unsubscribes = <<"f2">>
    /\ subscribers = <<[fileId |-> "f2", destroyed |-> FALSE]>>
    /\ Len(fileObservers) = 2

(***************************************************************************)
(* C20.  updateGPXData runs exactly once per selection notification and    *)
(* exactly once per later update of the file observer of a file that has a *)
(* selected item; subscribing to a file observer causes no recompute, and  *)
(* an update of a file with no selected item causes none.                  *)
(***************************************************************************)
C20_RecomputesOncePerChange ==
    /\ notified # <<>> => recomputes = 1
    /\ lastOp.op \in {"fileLoaded", "fileUpdated"} =>
          recomputes = IF \E item \in SelectedSet(selection) : getFileId(item) = lastOp.fileId
                       THEN 1 ELSE 0
====
